---- MODULE Spec2Model ----
(***************************************************************************)
(* Model of server.py: the spreadsheet table handed over by                *)
(* fetch_and_process_data, the current-interval resolver                   *)
(* (get_current_time_block, row_is_empty, get_fallback_row), the refresh   *)
(* loop (update_data, fetch_data, next_quarter_hour) and the read          *)
(* endpoint (get_latest_data).                                             *)
(*                                                                         *)
(* Times of day are minutes since midnight: the interval bounds are parsed *)
(* with "%H:%M", so comparing them with a reference time that carries      *)
(* seconds gives the same answer as comparing with its minute.             *)
(* Table positions and index labels are 0-based as in pandas; a table is a *)
(* sequence, so position i is element i + 1.                               *)
(***************************************************************************)
EXTENDS Integers, Sequences, FiniteSets, TLC

VARIABLES
    raw,            \* the data rows of the downloaded sheet (df[6:])
    now,            \* reference time of day of the resolution, in minutes
    df,             \* what fetch_and_process_data returned
    pc,             \* position of the resolution: "raw", "fetched", "resolved"
    matching_idx,   \* local of get_current_time_block
    last_before,    \* local of get_current_time_block
    start_idx,      \* argument of get_fallback_row, NoIdx when it was not called
    result,         \* what get_current_time_block returned (or raised)
    latest_data,    \* the global latest_data
    last_fetched_interval, \* the global last_fetched_interval
    attempt,        \* loop variable of fetch_data
    spc,            \* position of the scheduler thread
    new_data,       \* the dict built by fetch_data before it is stored
    cycle_base,     \* latest_data when the running call of fetch_data began
    stored,         \* whether the running call of fetch_data stored a dict
    rpc,            \* position of a request being served by get_latest_data
    resp,           \* the response of that request
    had_data,       \* whether latest_data was set when the request arrived
    clock,          \* wall clock in seconds
    start_now,      \* the local now of update_data
    next_run,       \* the local next_run of update_data
    upc,            \* position of update_data
    tries,          \* loop variable of fetch_data, in the timing view
    cycles,         \* number of calls of fetch_data begun so far
    began_at,       \* wall clock at which the latest call of fetch_data began
    ended_at        \* wall clock at which the previous call of fetch_data returned

resolver_vars == <<raw, now, df, pc, matching_idx, last_before, start_idx, result>>

serve_vars == <<latest_data, last_fetched_interval, attempt, spc, new_data,
                cycle_base, stored, rpc, resp, had_data>>

clock_vars == <<clock, start_now, next_run, upc, tries, cycles, began_at, ended_at>>

vars == <<resolver_vars, serve_vars, clock_vars>>

(***************************************************************************)
(* Bounds                                                                  *)
(***************************************************************************)
MaxRows == 3

\* rows of the tables the refresh loop is fed
SchedRows == 2

\* longest time, in seconds, one call of fetch_and_process_data and the
\* resolution after it take
MaxFetchSecs == 1

\* calls of fetch_data followed in the timing view
MaxCycles == 3

\* wall-clock times at which update_data starts: 10:07:00, 10:14:59, 23:50:30
StartTimes == {36420, 36899, 85830}

\* reference times: 00:05, 10:05, 23:50
Nows == {5, 605, 1430}

(***************************************************************************)
(* Cells and rows                                                          *)
(***************************************************************************)
\* the float NaN pandas puts in a cell the sheet leaves blank
NaN == "NaN"

\* the seven numeric columns, named by the keys fetch_data publishes them under
NumCols == {"traded_volume", "purchased_volume", "sold_volume",
            "weighted_average_price", "min_price", "max_price", "last_price"}

\* An interval cell: its text, whether the text contains a header marker
\* ("Perioda" or the column header), and the text split at "-" with each part
\* given as its ":"-separated numbers (<<>> for a part that holds none).
Cell(text, hdr, parts) == [isna |-> FALSE, text |-> text, hdr |-> hdr, parts |-> parts]

NaNCell == [isna |-> TRUE, text |-> "", hdr |-> FALSE, parts |-> <<>>]

L0945 == Cell("09:45-10:00", FALSE, << <<9, 45>>, <<10, 0>> >>)

L1000 == Cell("10:00-10:15", FALSE, << <<10, 0>>, <<10, 15>> >>)

L2345 == Cell("23:45-00:00", FALSE, << <<23, 45>>, <<0, 0>> >>)

L0000 == Cell("00:00-00:15", FALSE, << <<0, 0>>, <<0, 15>> >>)

LHeader == Cell("Perioda", TRUE, << <<>> >>)

RawIntervals == {L0000, L0945, L1000, L2345, LHeader, NaNCell}

FullBody == [c \in NumCols |-> "41.5"]

DashBody == [FullBody EXCEPT !["min_price"] = "-"]

NaNBody == [c \in NumCols |-> NaN]

Bodies == {FullBody, DashBody, NaNBody}

\* the sheets of at most n data rows with interval cells from ivs
RawTablesOver(ivs, n) == UNION {[1..k -> [interval : ivs, vals : Bodies]] : k \in 0..n}

RawTablesUpTo(n) == RawTablesOver(RawIntervals, n)

(***************************************************************************)
(* fetch_and_process_data                                                  *)
(***************************************************************************)
\* astype(str) on the interval column: NaN becomes the text "nan"
AsTypeStr(cell) == IF cell.isna THEN Cell("nan", FALSE, << <<>> >>) ELSE cell

\* dropna(how="all") keeps a row unless every cell of it is NaN
AllNaN(r) == r.interval.isna /\ \A c \in NumCols : r.vals[c] = NaN

RECURSIVE DropNa(_, _)
\* The rows of t from position i on that survive dropna, each keeping the
\* index label reset_index gave it before the drop.
DropNa(t, i) ==
    IF i >= Len(t) THEN <<>>
    ELSE IF AllNaN(t[i + 1]) THEN DropNa(t, i + 1)
    ELSE <<[idx |-> i, interval |-> AsTypeStr(t[i + 1].interval),
            vals |-> t[i + 1].vals]>> \o DropNa(t, i + 1)

fetch_and_process_data(t) == DropNa(t, 0)

(***************************************************************************)
(* row_is_empty                                                            *)
(***************************************************************************)
\* str(val).strip()
StrStrip(v) == CASE v = " " -> "" [] v = " - " -> "-" [] OTHER -> v

row_is_empty(row) ==
    \E c \in NumCols :
        row.vals[c] = NaN \/ StrStrip(row.vals[c]) = "" \/ StrStrip(row.vals[c]) = "-"

(***************************************************************************)
(* Positional access                                                       *)
(***************************************************************************)
NoIdx == -1

InRange(d, i) == 0 <= i /\ i < Len(d)

ILoc(d, i) == d[i + 1]

(***************************************************************************)
(* get_current_time_block: building valid_rows                             *)
(***************************************************************************)
\* datetime.strptime(part.strip(), "%H:%M") succeeds
ParsesHM(part) == Len(part) = 2 /\ part[1] \in 0..23 /\ part[2] \in 0..59

\* .time() of the parsed value, in minutes since midnight
TimeOf(part) == part[1] * 60 + part[2]

\* the row is neither a repeated header nor un-parseable
IsValidInterval(cell) ==
    /\ ~cell.hdr
    /\ Len(cell.parts) = 2
    /\ ParsesHM(cell.parts[1])
    /\ ParsesHM(cell.parts[2])

RECURSIVE ValidRowsFrom(_, _)
ValidRowsFrom(d, k) ==
    IF k > Len(d) THEN <<>>
    ELSE IF IsValidInterval(d[k].interval)
         THEN LET st == TimeOf(d[k].interval.parts[1])
                  et == TimeOf(d[k].interval.parts[2])
              IN  <<[idx |-> d[k].idx, st |-> st, et |-> et,
                     crosses_midnight |-> (st > et)]>> \o ValidRowsFrom(d, k + 1)
         ELSE ValidRowsFrom(d, k + 1)

valid_rows(d) == ValidRowsFrom(d, 1)

(***************************************************************************)
(* get_current_time_block: the scan                                        *)
(***************************************************************************)
\* Matches with the comparison against the end of a wrapping range turned round
MatchesEndTurned(v, t) ==
    IF v.crosses_midnight THEN t >= v.st \/ t > v.et
    ELSE v.st <= t /\ t < v.et

\* the test of the scan loop that makes a row the match
Matches(v, t) ==
    IF v.crosses_midnight THEN t >= v.st \/ t < v.et
    ELSE v.st <= t /\ t < v.et

\* LaterStart with ties let through
LaterOrEqualStart(st, kept) == st >= kept

\* the test that lets a row replace the last_before kept so far
LaterStart(st, kept) == st > kept

RECURSIVE Scan(_, _, _, _)
\* The scan from valid row k on, with lb the last_before kept so far (<<>>
\* for None); gives the locals matching_idx and last_before after the loop.
Scan(valid, k, t, lb) ==
    IF k > Len(valid) THEN [matching_idx |-> NoIdx, last_before |-> lb]
    ELSE IF Matches(valid[k], t)
         THEN [matching_idx |-> valid[k].idx, last_before |-> lb]
         ELSE IF valid[k].st <= t
              THEN IF lb = <<>>
                   THEN Scan(valid, k + 1, t, <<valid[k].idx, valid[k].st>>)
                   ELSE IF LaterStart(valid[k].st, lb[2])
                        THEN Scan(valid, k + 1, t, <<valid[k].idx, valid[k].st>>)
                        ELSE Scan(valid, k + 1, t, lb)
              ELSE Scan(valid, k + 1, t, lb)

(***************************************************************************)
(* Messages: the format and the values put into it                         *)
(***************************************************************************)
Msg(fmt, args) == [fmt |-> fmt, args |-> args]

EmptyMsg == Msg("", <<>>)

NoParseableMsg == Msg("No parseable intervals found; showing last row by default.", <<>>)

NoDataMsg == Msg("No data at all.", <<>>)

LastKnownMsg(row) ==
    Msg("No exact match for current time. Showing last known data from {}.",
        <<row.interval.text>>)

\* now.strftime('%H:%M')
StrfHM(t) ==
    CASE t = 5 -> "00:05" [] t = 605 -> "10:05" [] t = 1430 -> "23:50"
      [] OTHER -> "hh:mm"

AllAfterMsg(t, row) ==
    Msg("All intervals start after {}. Showing earliest interval in data: {}.",
        <<StrfHM(t), row.interval.text>>)

\* FallbackMsg citing the row the walk began at in its first place
FallbackMsgFromStart(d, start, i) ==
    Msg("No new data available after interval {}. Showing last known data from {}.",
        <<ILoc(d, start).interval.text, ILoc(d, i).interval.text>>)

\* the message of get_fallback_row for a walk from start that stopped at i
FallbackMsg(d, start, i) ==
    Msg("No new data available after interval {}. Showing last known data from {}.",
        <<ILoc(d, i).interval.text, ILoc(d, i).interval.text>>)

NoNonEmptyMsg == Msg("No non-empty row found; showing the earliest row.", <<>>)

NoDataFrameMsg == Msg("No data in DataFrame at all.", <<>>)

(***************************************************************************)
(* Return values                                                           *)
(***************************************************************************)
NoRow == [idx |-> NoIdx, interval |-> NaNCell, vals |-> NaNBody]

\* a returned (row, message); pos is the position the row was read from
Returned(d, i, msg) == [kind |-> "row", pos |-> i, row |-> ILoc(d, i), msg |-> msg]

ReturnedNone(msg) == [kind |-> "None", pos |-> NoIdx, row |-> NoRow, msg |-> msg]

\* df.iloc[i] with i out of bounds
IndexError == [kind |-> "IndexError", pos |-> NoIdx, row |-> NoRow, msg |-> EmptyMsg]

NotCalled == [kind |-> "pending", pos |-> NoIdx, row |-> NoRow, msg |-> EmptyMsg]

(***************************************************************************)
(* get_fallback_row                                                        *)
(***************************************************************************)
RECURSIVE WalkBack(_, _, _)
WalkBack(d, start, i) ==
    IF i < 0
    THEN IF Len(d) > 0 THEN Returned(d, 0, NoNonEmptyMsg)
         ELSE ReturnedNone(NoDataFrameMsg)
    ELSE IF ~InRange(d, i) THEN IndexError
    ELSE IF ~row_is_empty(ILoc(d, i)) THEN Returned(d, i, FallbackMsg(d, start, i))
    ELSE WalkBack(d, start, i - 1)

get_fallback_row(d, start) == WalkBack(d, start, start)

(***************************************************************************)
(* get_current_time_block: choosing the row                                *)
(***************************************************************************)
\* df.iloc[i], then the row itself with msg when it is complete, the
\* fallback walk from i when it is not
RowOrFallback(d, i, msg) ==
    IF ~InRange(d, i) THEN IndexError
    ELSE IF row_is_empty(ILoc(d, i)) THEN get_fallback_row(d, i)
    ELSE Returned(d, i, msg)

\* the argument get_fallback_row is called with, NoIdx when it is not called
FallbackStart(d, i) ==
    IF InRange(d, i) /\ row_is_empty(ILoc(d, i)) THEN i ELSE NoIdx

\* the index the row is read at once the scan is over
ChosenIdx(valid, s) ==
    IF s.matching_idx # NoIdx THEN s.matching_idx
    ELSE IF s.last_before # <<>> THEN s.last_before[1]
    ELSE valid[1].idx

ChosenMsg(d, t, s, i) ==
    IF s.matching_idx # NoIdx THEN EmptyMsg
    ELSE IF s.last_before # <<>>
         THEN IF InRange(d, i) THEN LastKnownMsg(ILoc(d, i)) ELSE EmptyMsg
    ELSE IF InRange(d, i) THEN AllAfterMsg(t, ILoc(d, i)) ELSE EmptyMsg

get_current_time_block(d, t) ==
    LET valid == valid_rows(d)
    IN  IF valid = <<>>
        THEN IF Len(d) > 0 THEN Returned(d, Len(d) - 1, NoParseableMsg)
             ELSE ReturnedNone(NoDataMsg)
        ELSE LET s == Scan(valid, 1, t, <<>>)
                 i == ChosenIdx(valid, s)
             IN  RowOrFallback(d, i, ChosenMsg(d, t, s, i))

\* the locals of get_current_time_block after the scan (None when the
\* function returned before the scan)
ScanLocals(d, t) ==
    IF valid_rows(d) = <<>> THEN [matching_idx |-> NoIdx, last_before |-> <<>>]
    ELSE Scan(valid_rows(d), 1, t, <<>>)

FallbackFrom(d, t) ==
    IF valid_rows(d) = <<>> THEN NoIdx
    ELSE FallbackStart(d, ChosenIdx(valid_rows(d), ScanLocals(d, t)))

(***************************************************************************)
(* The resolution of one table at one reference time                       *)
(***************************************************************************)
\* the dict fetch_data builds from a resolved row, its message and the clock
BuildSnapshot(row, msg, stamp) ==
    [interval |-> row.interval.text,
     traded_volume |-> row.vals["traded_volume"],
     purchased_volume |-> row.vals["purchased_volume"],
     sold_volume |-> row.vals["sold_volume"],
     weighted_average_price |-> row.vals["weighted_average_price"],
     min_price |-> row.vals["min_price"],
     max_price |-> row.vals["max_price"],
     last_price |-> row.vals["last_price"],
     fallback_message |-> msg,
     last_updated |-> stamp]

\* the value None of latest_data
NoSnapshot == [BuildSnapshot(NoRow, EmptyMsg, NoIdx) EXCEPT !.interval = "None"]

\* the 503 answer of get_latest_data
Unavailable == [NoSnapshot EXCEPT !.interval = "503 No data available yet"]

\* no answer given yet
NoResponse == [NoSnapshot EXCEPT !.interval = ""]

ServeIdle ==
    /\ latest_data = NoSnapshot
    /\ last_fetched_interval = "None"
    /\ attempt = 0
    /\ spc = "attempt"
    /\ new_data = NoSnapshot
    /\ cycle_base = NoSnapshot
    /\ stored = FALSE
    /\ rpc = "idle"
    /\ resp = NoResponse
    /\ had_data = FALSE

ClockIdle ==
    /\ clock = 0
    /\ start_now = 0
    /\ next_run = 0
    /\ upc = "start"
    /\ tries = 0
    /\ cycles = 0
    /\ began_at = 0
    /\ ended_at = 0

ResolverIdle ==
    /\ raw = <<>>
    /\ now = 5
    /\ df = <<>>
    /\ pc = "raw"
    /\ matching_idx = NoIdx
    /\ last_before = <<>>
    /\ start_idx = NoIdx
    /\ result = NotCalled

Init ==
    /\ raw \in RawTablesUpTo(MaxRows)
    /\ now \in Nows
    /\ df = <<>>
    /\ pc = "raw"
    /\ matching_idx = NoIdx
    /\ last_before = <<>>
    /\ start_idx = NoIdx
    /\ result = NotCalled
    /\ ServeIdle
    /\ ClockIdle

\* fetch_and_process_data returns the table
FetchAndProcess ==
    /\ pc = "raw"
    /\ df' = fetch_and_process_data(raw)
    /\ pc' = "fetched"
    /\ UNCHANGED <<raw, now, matching_idx, last_before, start_idx, result>>
    /\ UNCHANGED <<serve_vars, clock_vars>>

\* fetch_data finds the table empty and does not call the resolver
SkipEmpty ==
    /\ pc = "fetched"
    /\ Len(df) = 0
    /\ pc' = "skipped"
    /\ UNCHANGED <<raw, now, df, matching_idx, last_before, start_idx, result>>
    /\ UNCHANGED <<serve_vars, clock_vars>>

\* fetch_data calls get_current_time_block on the non-empty table
GetCurrentTimeBlock ==
    /\ pc = "fetched"
    /\ Len(df) > 0
    /\ result' = get_current_time_block(df, now)
    /\ matching_idx' = ScanLocals(df, now).matching_idx
    /\ last_before' = ScanLocals(df, now).last_before
    /\ start_idx' = FallbackFrom(df, now)
    /\ pc' = "resolved"
    /\ UNCHANGED <<raw, now, df>>
    /\ UNCHANGED <<serve_vars, clock_vars>>

Next == FetchAndProcess \/ SkipEmpty \/ GetCurrentTimeBlock

Spec == Init /\ [][Next]_vars

(***************************************************************************)
(* Properties of the resolution                                            *)
(***************************************************************************)
Resolved == pc = "resolved"

Positions(d) == 0..(Len(d) - 1)

Complete(d, p) == ~row_is_empty(ILoc(d, p))

StartOf(d, p) == TimeOf(ILoc(d, p).interval.parts[1])

EndOf(d, p) == TimeOf(ILoc(d, p).interval.parts[2])

\* the row at p is valid and its range contains t
Contains(d, p, t) ==
    /\ IsValidInterval(ILoc(d, p).interval)
    /\ IF StartOf(d, p) > EndOf(d, p)
       THEN t >= StartOf(d, p) \/ t < EndOf(d, p)
       ELSE StartOf(d, p) <= t /\ t < EndOf(d, p)

HasExact(d, t) == \E p \in Positions(d) : Contains(d, p, t)

\* position of the first valid row whose range contains t
ExactPos(d, t) ==
    CHOOSE p \in Positions(d) :
        Contains(d, p, t) /\ \A q \in Positions(d) : Contains(d, q, t) => p <= q

\* C1: a returned row is never incomplete while a row at an earlier position
\* than it is complete.
C1_NoIncompleteOverComplete ==
    (Resolved /\ result.kind = "row" /\ row_is_empty(result.row))
        => \A q \in 0..(result.pos - 1) : ~Complete(df, q)

\* C2: when the exact-match row is incomplete and an earlier row is complete,
\* the resolver returns, with a non-empty message, the complete row at the
\* greatest position not after the exact-match row.
C2_NearestEarlierComplete ==
    (/\ Resolved
     /\ HasExact(df, now)
     /\ ~Complete(df, ExactPos(df, now))
     /\ \E q \in 0..(ExactPos(df, now) - 1) : Complete(df, q))
        => /\ result.kind = "row"
           /\ ~row_is_empty(result.row)
           /\ result.msg.fmt # ""
           /\ result.pos <= ExactPos(df, now)
           /\ Complete(df, result.pos)
           /\ \A q \in (result.pos + 1)..ExactPos(df, now) : ~Complete(df, q)

\* C3 as stated: at 00:05 a table holding the complete row "23:45-00:00"
\* resolves to that row through the exact-match path, with an empty message.
C3_MidnightRowIsExactMatch ==
    (/\ Resolved
     /\ now = 5
     /\ \E p \in Positions(df) : ILoc(df, p).interval = L2345 /\ Complete(df, p))
        => /\ result.kind = "row"
           /\ matching_idx # NoIdx
           /\ result.row.interval = L2345
           /\ ~row_is_empty(result.row)
           /\ result.msg = EmptyMsg

MidnightRows(d) == {p \in Positions(d) : ILoc(d, p).interval = L2345}

\* C3 amended: at 00:05 the scan never takes a row "23:45-00:00" as the exact
\* match (00:05 is neither >= 23:45 nor < 00:00), and a row returned when the
\* scan found no match carries a non-empty message.
C3_MidnightRowNotMatchedAfterMidnight ==
    (Resolved /\ now = 5)
        => /\ \A p \in MidnightRows(df) : matching_idx # ILoc(df, p).idx
           /\ (matching_idx = NoIdx /\ result.kind = "row") => result.msg.fmt # ""

\* at 00:05 a complete row "23:45-00:00" is returned although nothing matched
C3_Witness ==
    /\ Resolved
    /\ now = 5
    /\ matching_idx = NoIdx
    /\ result.kind = "row"
    /\ result.row.interval = L2345
    /\ ~row_is_empty(result.row)

\* C4: a non-empty table whose rows are all incomplete resolves to the row at
\* the first position with the generic no-complete-row message.
C4_AllIncompleteGivesFirstRow ==
    (Resolved /\ Len(df) > 0 /\ \A p \in Positions(df) : ~Complete(df, p))
        => /\ result.kind = "row"
           /\ result.pos = 0
           /\ result.row = ILoc(df, 0)
           /\ result.msg = NoNonEmptyMsg

\* C5: when the first valid row whose range contains now is complete, the
\* resolver returns exactly that row with an empty message.
C5_CompleteExactMatchReturned ==
    (Resolved /\ HasExact(df, now) /\ Complete(df, ExactPos(df, now)))
        => /\ result.kind = "row"
           /\ result.pos = ExactPos(df, now)
           /\ result.row = ILoc(df, ExactPos(df, now))
           /\ result.msg = EmptyMsg

\* positions of the valid rows that start at or before t
Started(d, t) ==
    {p \in Positions(d) : IsValidInterval(ILoc(d, p).interval) /\ StartOf(d, p) <= t}

\* those among them with the latest start
Latest(d, t) == {p \in Started(d, t) : \A q \in Started(d, t) : StartOf(d, q) <= StartOf(d, p)}

MinOf(S) == CHOOSE p \in S : \A q \in S : p <= q

MaxOf(S) == CHOOSE p \in S : \A q \in S : q <= p

NoExactButStarted == Resolved /\ ~HasExact(df, now) /\ Started(df, now) # {}

\* C9 as stated: with no row containing now, last_before is the valid row
\* with the latest start <= now, the last one in scan order among equals.
C9_LastSeenWins ==
    NoExactButStarted
        => last_before = <<ILoc(df, MaxOf(Latest(df, now))).idx,
                           StartOf(df, MaxOf(Latest(df, now)))>>

\* C9 amended: with no row containing now, last_before is the valid row with
\* the latest start <= now, the first one in scan order among equals.
C9_FirstSeenWins ==
    NoExactButStarted
        => last_before = <<ILoc(df, MinOf(Latest(df, now))).idx,
                           StartOf(df, MinOf(Latest(df, now)))>>

\* a resolution with no exact match in which two valid rows share the latest start
C9_Witness == NoExactButStarted /\ Cardinality(Latest(df, now)) > 1

\* the fallback walk began at an incomplete row at p = start_idx and returned
\* a complete row at an earlier position
WalkedBack ==
    /\ Resolved
    /\ start_idx # NoIdx
    /\ result.kind = "row"
    /\ result.pos < start_idx
    /\ ~row_is_empty(result.row)

\* C10 as stated: the message of a fallback from p to q < p cites the
\* interval of the row at p and the interval of the row at q.
C10_CitesTriggerAndShown ==
    WalkedBack
        => result.msg.args = <<ILoc(df, start_idx).interval.text,
                               ILoc(df, result.pos).interval.text>>

\* C10 amended: the message of a fallback from p to q < p cites the interval
\* of the row at q in both of its places.
C10_CitesShownTwice ==
    WalkedBack
        => result.msg =
             Msg("No new data available after interval {}. Showing last known data from {}.",
                 <<ILoc(df, result.pos).interval.text, ILoc(df, result.pos).interval.text>>)

\* a fallback from p to q < p between rows of different intervals
C10_Witness ==
    /\ WalkedBack
    /\ ILoc(df, start_idx).interval.text # ILoc(df, result.pos).interval.text

(***************************************************************************)
(* fetch_data and get_latest_data: the snapshot slot                       *)
(***************************************************************************)
max_retries == 10

\* what get_current_time_block can give fetch_data for a non-empty table
Resolutions ==
    {get_current_time_block(fetch_and_process_data(t), 605) :
        t \in {x \in RawTablesOver({L0945, L1000, NaNCell}, SchedRows) :
                  fetch_and_process_data(x) # <<>>}}

\* the clock readings put into last_updated
Stamps == Nows

\* IsPublishable without the completeness test
AnyRowPublishable(row) == TRUE

\* the test of fetch_data that lets a resolved row be stored
IsPublishable(row) == ~row_is_empty(row)

\* Publish updating the dict already in the slot, its message left as it was
PublishInPlace(old, new) ==
    IF old.interval = "None" THEN new
    ELSE [new EXCEPT !.fallback_message = old.fallback_message]

\* the value of latest_data after the assignment latest_data = {...}
Publish(old, new) == new

\* range(max_retries) has a further value after n attempts
MoreAttempts(n) == n < max_retries

\* fetch_and_process_data returned None or an empty table
AttemptFetchFails ==
    /\ spc = "attempt"
    /\ spc' = "sleep"
    /\ UNCHANGED <<latest_data, last_fetched_interval, attempt, new_data,
                   cycle_base, stored>>
    /\ UNCHANGED <<rpc, resp, had_data>>
    /\ UNCHANGED <<resolver_vars, clock_vars>>

\* get_current_time_block raised: the exception leaves fetch_data and
\* update_data, and the thread ends
AttemptRaises ==
    /\ spc = "attempt"
    /\ \E r \in Resolutions : r.kind = "IndexError"
    /\ spc' = "crashed"
    /\ UNCHANGED <<latest_data, last_fetched_interval, attempt, new_data,
                   cycle_base, stored>>
    /\ UNCHANGED <<rpc, resp, had_data>>
    /\ UNCHANGED <<resolver_vars, clock_vars>>

\* the resolved row is still incomplete
AttemptIncomplete ==
    /\ spc = "attempt"
    /\ \E r \in Resolutions : r.kind = "row" /\ ~IsPublishable(r.row)
    /\ spc' = "sleep"
    /\ UNCHANGED <<latest_data, last_fetched_interval, attempt, new_data,
                   cycle_base, stored>>
    /\ UNCHANGED <<rpc, resp, had_data>>
    /\ UNCHANGED <<resolver_vars, clock_vars>>

\* the resolved row is complete: the dict is built
AttemptComplete ==
    /\ spc = "attempt"
    /\ \E r \in Resolutions, stamp \in Stamps :
        /\ r.kind = "row"
        /\ IsPublishable(r.row)
        /\ new_data' = BuildSnapshot(r.row, r.msg, stamp)
    /\ spc' = "store"
    /\ UNCHANGED <<latest_data, last_fetched_interval, attempt, cycle_base, stored>>
    /\ UNCHANGED <<rpc, resp, had_data>>
    /\ UNCHANGED <<resolver_vars, clock_vars>>

\* latest_data = {...}
StoreLatest ==
    /\ spc = "store"
    /\ latest_data' = Publish(latest_data, new_data)
    /\ stored' = TRUE
    /\ spc' = "store_interval"
    /\ UNCHANGED <<last_fetched_interval, attempt, new_data, cycle_base>>
    /\ UNCHANGED <<rpc, resp, had_data>>
    /\ UNCHANGED <<resolver_vars, clock_vars>>

\* last_fetched_interval = current_interval; break
StoreInterval ==
    /\ spc = "store_interval"
    /\ last_fetched_interval' = new_data.interval
    /\ spc' = "returned"
    /\ UNCHANGED <<latest_data, attempt, new_data, cycle_base, stored>>
    /\ UNCHANGED <<rpc, resp, had_data>>
    /\ UNCHANGED <<resolver_vars, clock_vars>>

\* time.sleep(retry_delay), then the next value of the loop or its end
RetrySleep ==
    /\ spc = "sleep"
    /\ attempt' = attempt + 1
    /\ spc' = IF MoreAttempts(attempt + 1) THEN "attempt" ELSE "returned"
    /\ UNCHANGED <<latest_data, last_fetched_interval, new_data, cycle_base, stored>>
    /\ UNCHANGED <<rpc, resp, had_data>>
    /\ UNCHANGED <<resolver_vars, clock_vars>>

\* update_data sleeps and calls fetch_data again
NextCycle ==
    /\ spc = "returned"
    /\ attempt' = 0
    /\ cycle_base' = latest_data
    /\ stored' = FALSE
    /\ new_data' = NoSnapshot
    /\ spc' = "attempt"
    /\ UNCHANGED <<latest_data, last_fetched_interval>>
    /\ UNCHANGED <<rpc, resp, had_data>>
    /\ UNCHANGED <<resolver_vars, clock_vars>>

\* get_latest_data reads latest_data for the test "is None"
ReadCheck ==
    /\ rpc = "idle"
    /\ had_data' = (cycle_base # NoSnapshot \/ stored)
    /\ IF latest_data = NoSnapshot
       THEN rpc' = "responded" /\ resp' = Unavailable
       ELSE rpc' = "return" /\ resp' = resp
    /\ UNCHANGED <<latest_data, last_fetched_interval, attempt, spc, new_data,
                   cycle_base, stored>>
    /\ UNCHANGED <<resolver_vars, clock_vars>>

\* get_latest_data reads latest_data again to return it
ReadReturn ==
    /\ rpc = "return"
    /\ resp' = latest_data
    /\ rpc' = "responded"
    /\ UNCHANGED had_data
    /\ UNCHANGED <<latest_data, last_fetched_interval, attempt, spc, new_data,
                   cycle_base, stored>>
    /\ UNCHANGED <<resolver_vars, clock_vars>>

\* the response is sent; the next request may arrive
ReadDone ==
    /\ rpc = "responded"
    /\ rpc' = "idle"
    /\ resp' = NoResponse
    /\ had_data' = FALSE
    /\ UNCHANGED <<latest_data, last_fetched_interval, attempt, spc, new_data,
                   cycle_base, stored>>
    /\ UNCHANGED <<resolver_vars, clock_vars>>

Scheduler ==
    \/ AttemptFetchFails
    \/ AttemptRaises
    \/ AttemptIncomplete
    \/ AttemptComplete
    \/ StoreLatest
    \/ StoreInterval
    \/ RetrySleep
    \/ NextCycle

ServeInit == ResolverIdle /\ ServeIdle /\ ClockIdle

ServeNext == Scheduler \/ ReadCheck \/ ReadReturn \/ ReadDone

\* the scheduler thread and the requests, interleaved
ServeSpec == ServeInit /\ [][ServeNext]_vars

\* the scheduler thread alone, which runs whenever it can
CycleSpec == ServeInit /\ [][Scheduler]_vars /\ WF_vars(Scheduler)

(***************************************************************************)
(* Properties of the snapshot slot                                         *)
(***************************************************************************)
\* the dicts one successful resolution can build
WholeSnapshots ==
    {BuildSnapshot(r.row, r.msg, stamp) :
        r \in {x \in Resolutions : x.kind = "row" /\ ~row_is_empty(x.row)},
        stamp \in Stamps}

\* C6: a request is answered with "unavailable" only if nothing had been
\* published when it arrived, and otherwise with one whole dict as a single
\* successful resolution built it.
C6_ReadsSeeWholeSnapshots ==
    /\ resp \in {NoResponse, Unavailable} \cup WholeSnapshots
    /\ resp = Unavailable => ~had_data
    /\ rpc = "responded" => resp # NoResponse

\* a request was answered with a snapshot that has been replaced since
C6_Witness ==
    /\ rpc = "responded"
    /\ resp \in WholeSnapshots
    /\ latest_data \in WholeSnapshots
    /\ resp # latest_data

NumericFields(d) ==
    {d.traded_volume, d.purchased_volume, d.sold_volume, d.weighted_average_price,
     d.min_price, d.max_price, d.last_price}

\* the slot holds nothing, or seven numeric fields none of which is missing
SlotHoldsCompleteRow ==
    \/ latest_data = NoSnapshot
    \/ \A v \in NumericFields(latest_data) : v \notin {NaN, "", " ", "-", " - "}

\* C7: within one call of fetch_data a failed attempt leaves latest_data as
\* it was, at most max_retries attempts are made, the call ends, and until an
\* attempt succeeds latest_data is what it was when the call began; the slot
\* only ever holds nothing or the fields of a complete row.
C7_FailedAttemptsKeepSnapshot ==
    /\ [](attempt <= max_retries /\ (spc = "attempt" => attempt < max_retries))
    /\ [](~stored => latest_data = cycle_base)
    /\ []SlotHoldsCompleteRow
    /\ [][(spc = "attempt" /\ spc' \in {"sleep", "crashed"})
             => latest_data' = latest_data]_vars
    /\ [][spc = "sleep" => latest_data' = latest_data]_vars
    /\ (spc = "attempt") ~> (spc \in {"returned", "crashed"})

\* a call of fetch_data ended after max_retries failed attempts with the
\* earlier snapshot still in the slot
C7_Witness ==
    /\ spc = "returned"
    /\ attempt = max_retries
    /\ ~stored
    /\ latest_data # NoSnapshot
    /\ latest_data = cycle_base

(***************************************************************************)
(* update_data: when the calls of fetch_data begin                         *)
(***************************************************************************)
retry_delay == 60

QuarterHour == 900

MinuteOf(t) == (t \div 60) % 60

HourOf(t) == (t \div 3600) % 24

DayOf(t) == t \div 86400

\* the datetime of day d at h:m:00
DateTime(d, h, m) == d * 86400 + h * 3600 + m * 60

next_quarter_hour(t) ==
    LET minute == (MinuteOf(t) \div 15 + 1) * 15
    IN  IF minute = 60
        THEN IF HourOf(t) + 1 = 24
             THEN DateTime(DayOf(t) + 1, 0, 0)
             ELSE DateTime(DayOf(t), HourOf(t) + 1, 0)
        ELSE DateTime(DayOf(t), HourOf(t), minute)

\* update_data reads the clock and calls fetch_data for the first time
ClockInit ==
    /\ clock \in StartTimes
    /\ start_now = clock
    /\ next_run = 0
    /\ upc = "first_fetch"
    /\ tries = 0
    /\ cycles = 1
    /\ began_at = clock
    /\ ended_at = 0
    /\ ResolverIdle
    /\ ServeIdle

\* where update_data is once the running call of fetch_data has returned
AfterFetch(at) == IF at = "first_fetch" THEN "first_wait" ELSE "loop_wait"

\* an attempt of fetch_data fails and is followed by time.sleep(retry_delay)
TryFails ==
    /\ upc \in {"first_fetch", "fetch"}
    /\ \E d \in 0..MaxFetchSecs : clock' = clock + d + retry_delay
    /\ tries' = tries + 1
    /\ upc' = IF tries + 1 < max_retries THEN upc ELSE AfterFetch(upc)
    /\ UNCHANGED <<start_now, next_run, cycles, began_at, ended_at>>
    /\ UNCHANGED <<resolver_vars, serve_vars>>

\* an attempt of fetch_data stores a snapshot and breaks
TrySucceeds ==
    /\ upc \in {"first_fetch", "fetch"}
    /\ \E d \in 0..MaxFetchSecs : clock' = clock + d
    /\ upc' = AfterFetch(upc)
    /\ UNCHANGED <<start_now, next_run, tries, cycles, began_at, ended_at>>
    /\ UNCHANGED <<resolver_vars, serve_vars>>

\* after the first call: next_run and the wait are computed from the now read
\* before that call, the thread sleeps, and the loop calls fetch_data
FirstWait ==
    /\ upc = "first_wait"
    /\ cycles < MaxCycles
    /\ next_run' = next_quarter_hour(start_now)
    /\ clock' = clock + (next_quarter_hour(start_now) - start_now)
    /\ ended_at' = clock
    /\ began_at' = clock'
    /\ cycles' = cycles + 1
    /\ tries' = 0
    /\ upc' = "fetch"
    /\ UNCHANGED start_now
    /\ UNCHANGED <<resolver_vars, serve_vars>>

\* in the loop: next_run advances by 15 minutes, the thread sleeps until then
\* when that is still ahead, and the loop calls fetch_data
LoopWait ==
    /\ upc = "loop_wait"
    /\ cycles < MaxCycles
    /\ next_run' = next_run + QuarterHour
    /\ clock' = IF next_run + QuarterHour - clock > 0 THEN next_run + QuarterHour ELSE clock
    /\ ended_at' = clock
    /\ began_at' = clock'
    /\ cycles' = cycles + 1
    /\ tries' = 0
    /\ upc' = "fetch"
    /\ UNCHANGED start_now
    /\ UNCHANGED <<resolver_vars, serve_vars>>

ClockNext == TryFails \/ TrySucceeds \/ FirstWait \/ LoopWait

ClockSpec == ClockInit /\ [][ClockNext]_vars

\* the first quarter-hour boundary after t
BoundaryAfter(t) == (t \div 900 + 1) * 900

\* C8: every call of fetch_data after the first begins on a quarter-hour
\* boundary, the first one after the previous call returned.
C8_CyclesStartOnBoundary ==
    cycles >= 2 => (began_at % 900 = 0 /\ began_at = BoundaryAfter(ended_at))

====
